---- MODULE Spec2Model ----
(***************************************************************************)
(* Model of fabfile.py: the provisioning tasks (addadminuser, securessh,   *)
(* setupfirewall, installpackages, setupdjangoapp, setup, defaultserver),  *)
(* the configuration loader, and the remote host the tasks act on.         *)
(*                                                                         *)
(* One action per remote call (sudo / exists / append / sed / put) of the  *)
(* source, in source order.  A call made without quiet=True aborts the     *)
(* task when the remote command exits non-zero; a call made with           *)
(* quiet=True only warns and the task goes on.                             *)
(***************************************************************************)
EXTENDS Integers, Sequences, FiniteSets, TLC

VARIABLES
    env,          \* fabric's env: key -> value (Unset when the key is absent)
    conf,         \* conf.json on the local disk
    target,       \* the state of the remote host
    task,         \* the task the command line is running, "none" between tasks
    pc,           \* the statement the running task is at
    idx,          \* loop position (package list, directory list, downloads)
    log,          \* remote calls issued by the running task invocation, in order
    outcome,      \* "none" | "running" | "done" | "aborted" (the latest invocation)
    abortKind,    \* "" | "config" | "remote" | "local" | "connection" (why it aborted)
    startTarget,  \* target when the latest invocation started
    startEnv,     \* env when the latest invocation started
    lastLoad,     \* the latest loadconfig call: what it saw and what it did
    loaded,       \* the loadconfig call that merged a profile into env in the running
                  \* fab process: the profile key it selected and the profile it merged
    prevSetup,    \* env at the end of the invocation before the latest one, when that
                  \* was a `setup` that completed with every command succeeding
    prevRun,      \* the invocation before the latest one, when a failed remote command
                  \* aborted it: its task, the host it started from and its env
    cmdline,      \* what the command line of the running fab process sets in env
    host0,        \* the host as it was before the first task
    sec,          \* securessh so far: calls started, calls completed, sed calls that
                  \* changed PermitRootLogin, service restarts issued
    events        \* things that happened so far: tasks started, commands that failed,
                  \* new processes and edits of conf.json

vars == <<env, conf, target, task, pc, idx, log, outcome, abortKind,
          startTarget, startEnv, lastLoad, loaded, prevSetup, prevRun, host0, cmdline,
          sec, events>>

(***************************************************************************)
(* Bounds                                                                  *)
(***************************************************************************)
\* a behaviour holds at most this many events (see the variable events)
MaxEvents == 3

(***************************************************************************)
(* Values                                                                  *)
(***************************************************************************)
Unset == "<unset>"
PyTrue == "<True>"
PyFalse == "<False>"
PyNone == "<None>"

\* the keys the with-blocks of the tasks set on entry and restore on exit:
\* cd() sets cwd, settings(sudo_user=..., quiet=True) sets sudo_user and quiet,
\* shell_env(HOME=...) sets shell_env
ScopedKeys == {"cwd", "sudo_user", "quiet", "shell_env"}

\* the entries of env the tasks read or write
EnvKeys == {"config_loaded", "config_key", "admin_user", "admin_group", "app_name"}
               \cup ScopedKeys

ProfileNames == {"default", "prod"}

\* Python truthiness of an env value
Truthy(v) == v \notin {PyFalse, Unset, ""}

(***************************************************************************)
(* String helpers (fabric's sed is given literal patterns here)            *)
(***************************************************************************)
Range(s) == {s[i] : i \in 1..Len(s)}

StartsWith(s, p) == Len(s) >= Len(p) /\ SubSeq(s, 1, Len(p)) = p

Contains(s, p) == \E i \in 1..(Len(s) - Len(p) + 1) : SubSeq(s, i, i + Len(p) - 1) = p

RECURSIVE ReplaceAll(_, _, _)
ReplaceAll(s, before, after) ==
    IF Len(s) < Len(before) \/ Len(before) = 0 THEN s
    ELSE IF StartsWith(s, before)
         THEN after \o ReplaceAll(SubSeq(s, Len(before) + 1, Len(s)), before, after)
         ELSE SubSeq(s, 1, 1) \o ReplaceAll(SubSeq(s, 2, Len(s)), before, after)

(***************************************************************************)
(* conf.json and loadconfig                                                *)
(***************************************************************************)
\* The configuration documents considered: profile name -> (key -> value).
DocFull ==
    [default |-> [admin_user |-> "ops", admin_group |-> "sudo", app_name |-> "web"],
     prod    |-> [admin_user |-> "adm", admin_group |-> "wheel", app_name |-> "shop"]]

\* A document with one profile only, which lacks admin_group and app_name and
\* carries a key named like the loaded flag.
DocOdd ==
    [default |-> [admin_user |-> "ops", config_loaded |-> PyFalse]]

Documents == {DocFull, DocOdd}

NoDoc == [p \in {} |-> Unset]

ConfStates ==
    {[state |-> "ok", doc |-> d] : d \in Documents}
        \cup {[state |-> "missing", doc |-> NoDoc], [state |-> "malformed", doc |-> NoDoc]}

\* env as the module leaves it at import, with what the command line sets
\* (fabric's env has cwd, sudo_user and shell_env from the start and no key quiet)
FreshEnv(key, preset) ==
    [k \in EnvKeys |->
        CASE k = "config_loaded" -> PyFalse
          [] k = "config_key"    -> key
          [] k = "admin_user"    -> preset
          [] k = "cwd"           -> ""
          [] k = "sudo_user"     -> PyNone
          [] k = "shell_env"     -> "{}"
          [] OTHER               -> Unset]

\* Faulty variant of Merge: a key that already has a value keeps it
MergeKeepExisting(e, profile) ==
    [k \in EnvKeys |-> IF k \in DOMAIN profile /\ e[k] = Unset THEN profile[k] ELSE e[k]]

\* for k, v in env_config_object.items(): env[k] = v
Merge(e, profile) ==
    [k \in EnvKeys |-> IF k \in DOMAIN profile THEN profile[k] ELSE e[k]]

\* env.config_loaded = True
MarkLoaded(e) == [e EXCEPT !["config_loaded"] = PyTrue]

\* Faulty variant of LoadConfig: the `if env.config_loaded: return` guard is missing
LoadConfigAlways(e, c) ==
    IF e["config_key"] = Unset \/ c.state # "ok" \/ e["config_key"] \notin DOMAIN c.doc
    THEN [kind |-> "abort", env |-> e, why |-> "config"]
    ELSE [kind |-> "ok",
          env |-> [[k \in EnvKeys |-> IF k \in DOMAIN c.doc[e["config_key"]]
                                      THEN c.doc[e["config_key"]][k] ELSE e[k]]
                      EXCEPT !["config_loaded"] = PyTrue],
          why |-> ""]

\* Faulty variant of LoadConfig: the context is marked loaded before the document
\* is read
LoadConfigEarlyFlag(e, c) ==
    IF Truthy(e["config_loaded"])
    THEN [kind |-> "noop", env |-> e, why |-> ""]
    ELSE IF e["config_key"] = Unset \/ c.state # "ok" \/ e["config_key"] \notin DOMAIN c.doc
    THEN [kind |-> "abort", env |-> [e EXCEPT !["config_loaded"] = PyTrue], why |-> "config"]
    ELSE [kind |-> "ok",
          env |-> [[k \in EnvKeys |-> IF k \in DOMAIN c.doc[e["config_key"]]
                                      THEN c.doc[e["config_key"]][k] ELSE e[k]]
                      EXCEPT !["config_loaded"] = PyTrue],
          why |-> ""]

\* loadconfig(): what the call does to env, and how it ends
\*   kind = "noop"  the context was marked loaded, nothing done
\*   kind = "ok"    the selected profile was merged and the context marked loaded
\*   kind = "abort" require/abort/json.load ended the run
LoadConfig(e, c) ==
    IF Truthy(e["config_loaded"])
    THEN [kind |-> "noop", env |-> e, why |-> ""]
    ELSE IF e["config_key"] = Unset
    THEN [kind |-> "abort", env |-> e, why |-> "no config_key"]
    ELSE IF c.state = "missing"
    THEN [kind |-> "abort", env |-> e, why |-> "no file"]
    ELSE IF c.state = "malformed"
    THEN [kind |-> "abort", env |-> e, why |-> "malformed"]
    ELSE IF e["config_key"] \notin DOMAIN c.doc
    THEN [kind |-> "abort", env |-> e, why |-> "no profile"]
    ELSE [kind |-> "ok", env |-> MarkLoaded(Merge(e, c.doc[e["config_key"]])), why |-> ""]

\* Faulty variant of Require: nothing is required
RequireNothing(e, keys) == TRUE

\* require(k1, k2, ...): every key is set in env
Require(e, keys) == \A k \in keys : e[k] # Unset

NoEnv == FreshEnv(Unset, Unset)

\* no profile has been merged in the running process
NotLoaded == [key |-> Unset, profile |-> NoDoc]

\* json_config_object.get(env.config_key): the profile a load merges, and its key
Selected(e, c) == [key |-> e["config_key"], profile |-> c.doc[e["config_key"]]]

NoLoad == [kind |-> "none", before |-> NoEnv, after |-> NoEnv,
           conf |-> [state |-> "missing", doc |-> NoDoc]]

(***************************************************************************)
(* The remote host                                                         *)
(***************************************************************************)
Home(u) == "/home/" \o u
SshDir(u) == Home(u) \o "/.ssh"
AuthorizedKeys(u) == SshDir(u) \o "/authorized_keys"
PubKey(u) == "ssh-rsa AAAA " \o u
SudoersLine(u) == u \o " ALL=(ALL) NOPASSWD:ALL"
\* the file name given to append() is not formatted: it keeps its placeholder
SudoersFile == "/etc/sudoers.d/{username}"
SshdConfig == "/etc/ssh/sshd_config"
iptables_rules_file == "/etc/iptables.firewall.rules"
iptables_init_file == "/etc/network/if-pre-up.d/firewall"
\* the text after .strip(): the blanks at its two ends are gone, the indentation of
\* the second line is kept
iptables_init_text ==
    <<"#!/bin/sh", "    /sbin/iptables-restore < /etc/iptables.firewall.rules">>

pkg_list ==
    <<"emacs-nox", "git", "supervisor", "build-essential", "python3-dev", "virtualenv",
      "fail2ban", "nginx", "postgresql", "postgresql-contrib", "postgresql-server-dev-all",
      "zsh", "tmux">>

\* Faulty variant of exists: only regular files are seen (test -f for test -e)
exists_file_only(t, path) == path \in DOMAIN t.files

\* fabric.contrib.files.exists(path)
exists(t, path) == path \in t.dirs \/ path \in DOMAIN t.files

WriteFile(files, path, lines) ==
    [q \in (DOMAIN files) \cup {path} |-> IF q = path THEN lines ELSE files[q]]

\* fabric.contrib.files.append(path, text): the text is added at the end of the
\* file, which is created when absent, unless the file already holds it
AppendText(files, path, text) ==
    IF path \in DOMAIN files
    THEN IF Range(text) \subseteq Range(files[path])
         THEN files
         ELSE WriteFile(files, path, files[path] \o text)
    ELSE WriteFile(files, path, text)

\* the backup copy sed leaves next to the file it edits (backup='.bak')
Backup(path) == path \o ".bak"

\* Faulty variant of SedFile: pattern and replacement are swapped
SedFileSwapped(files, path, before, after) ==
    IF path \in DOMAIN files
    THEN WriteFile([files EXCEPT ![path] = [i \in 1..Len(@) |-> ReplaceAll(@[i], after, before)]],
                   Backup(path), files[path])
    ELSE files

\* fabric.contrib.files.sed(path, before, after): sed -i.bak s/before/after/g.  Every
\* line is rewritten, and the file as it was before the call is kept as <path>.bak,
\* whether or not a line matched.
SedFile(files, path, before, after) ==
    IF path \in DOMAIN files
    THEN WriteFile([files EXCEPT ![path] = [i \in 1..Len(@) |-> ReplaceAll(@[i], before, after)]],
                   Backup(path), files[path])
    ELSE files

\* What the host looks like before the first run.  admin: nothing of user "ops"
\* exists / the account and its home exist / also its .ssh with the key.
Host(admin, app, sshd, fw, pkgs) ==
    [ dirs      |-> (IF admin \in {"home", "ssh"} THEN {Home("ops")} ELSE {})
                      \cup (IF admin = "ssh" THEN {SshDir("ops")} ELSE {})
                      \cup (IF app THEN {Home("web")} ELSE {}),
      files     |-> LET base == WriteFile(NoDoc, SshdConfig, sshd)
                        withKey == IF admin = "ssh"
                                   THEN WriteFile(base, AuthorizedKeys("ops"), <<PubKey("ops")>>)
                                   ELSE base
                    IN  IF fw THEN WriteFile(withKey, iptables_init_file, iptables_init_text)
                        ELSE withKey,
      users     |-> (IF admin \in {"home", "ssh"} THEN {"ops"} ELSE {})
                      \cup (IF app THEN {"web"} ELSE {}),
      members   |-> {},
      owner     |-> IF admin = "ssh" THEN {<<SshDir("ops"), "ops">>} ELSE {},
      private   |-> IF admin = "ssh" THEN {SshDir("ops")} ELSE {},
      exec      |-> IF fw THEN {iptables_init_file} ELSE {},
      sshdLive  |-> sshd,
      fwActive  |-> fw,
      aptFresh  |-> FALSE,
      installed |-> pkgs[1],
      unavailable |-> pkgs[2],
      pgRoles   |-> {},
      pgDbs     |-> {} ]

\* The hosts a run may start from: a fresh machine, a machine someone began to set
\* up by hand, and a machine that has the admin account and the firewall already.
Hosts ==
    { Host("none", FALSE, <<"PermitRootLogin yes", "#PasswordAuthentication yes">>, FALSE,
           <<{}, {}>>),
      Host("home", TRUE, <<"#PermitRootLogin yes", "PasswordAuthentication yes">>, FALSE,
           <<{"git", "nginx"}, {"supervisor"}>>),
      Host("ssh", FALSE, <<"PermitRootLogin no", "PasswordAuthentication no">>, TRUE,
           <<{"git"}, {}>>) }

(***************************************************************************)
(* Initial states                                                          *)
(***************************************************************************)
\* what the command line may set before the first task: (config_key, admin_user)
CommandLines ==
    { <<Unset, Unset>>, <<"default", "root">>, <<"prod", Unset>> }

Init ==
    /\ cmdline \in CommandLines
    /\ env = FreshEnv(cmdline[1], cmdline[2])
    /\ conf \in ConfStates
    /\ target \in Hosts
    /\ task = "none"
    /\ pc = "idle"
    /\ idx = 0
    /\ log = <<>>
    /\ outcome = "none"
    /\ abortKind = ""
    /\ startTarget = target
    /\ startEnv = env
    /\ lastLoad = NoLoad
    /\ loaded = NotLoaded
    /\ prevSetup = NoEnv
    /\ prevRun = [task |-> "none", start |-> target, env |-> NoEnv]
    /\ host0 = target
    /\ sec = [started |-> 0, completed |-> 0, subs |-> 0, restarts |-> 0]
    /\ events = 0

(***************************************************************************)
(* Steps shared by the tasks                                               *)
(***************************************************************************)
Tasks == {"addadminuser", "securessh", "setupfirewall", "installpackages",
          "setupdjangoapp", "setup", "defaultserver"}

\* one remote call: the function it was made from, the command, its argument and
\* whether it exited zero (for exists: whether the path was there)
Cmd(step, cmd, arg, ok) == [step |-> step, cmd |-> cmd, arg |-> arg, ok |-> ok]

\* a call whose non-zero exit is a failure (every call but the exists checks)
Failed(c) == ~c.ok /\ c.cmd # "exists"

\* Faulty variant of setup_sequence: ssh is secured before the admin user exists
setup_sequence_swapped == <<"securessh", "addadminuser", "setupfirewall", "installpackages">>

\* body of setup(): the tasks it calls, in order
setup_sequence == <<"addadminuser", "securessh", "setupfirewall", "installpackages">>

\* where control goes when the function `sub` returns
After(sub) ==
    IF task = "setup"
    THEN LET i == CHOOSE j \in 1..Len(setup_sequence) : setup_sequence[j] = sub
         IN  IF i < Len(setup_sequence) THEN setup_sequence[i + 1] ELSE "end"
    ELSE "end"

Goto(next) ==
    /\ pc' = next
    /\ outcome' = IF next = "end" THEN "done" ELSE outcome
    /\ abortKind' = abortKind

\* abort(): the task invocation ends here
AbortWith(kind) ==
    /\ pc' = "end"
    /\ outcome' = "aborted"
    /\ abortKind' = kind

\* the loadconfig() call every task starts with
DoLoad(r) ==
    /\ env' = r.env
    /\ lastLoad' = [kind |-> r.kind, before |-> env, after |-> r.env, conf |-> conf]
    /\ loaded' = IF r.kind = "ok" THEN Selected(env, conf) ELSE loaded

\* Faulty variant of Remote: a non-zero exit is only warned about (warn_only)
RemoteWarnOnly(step, cmd, arg, can, newTarget, next) ==
    \E ok \in BOOLEAN :
        /\ ok => can
        /\ (~ok /\ can) => events < MaxEvents
        /\ events' = IF ~ok /\ can THEN events + 1 ELSE events
        /\ log' = Append(log, [step |-> step, cmd |-> cmd, arg |-> arg, ok |-> ok])
        /\ target' = IF ok THEN newTarget ELSE target
        /\ pc' = next
        /\ outcome' = IF next = "end" THEN "done" ELSE outcome
        /\ abortKind' = abortKind
        /\ UNCHANGED <<env, conf, task, startTarget, startEnv, lastLoad, loaded, prevSetup, prevRun, host0, cmdline>>

\* on leaving a with-block (its body finished, or abort() unwinds through it) the
\* keys it set get back the values they had on entry, and a key that was not in env
\* on entry (quiet) is removed again; every with-block of a task is
\* entered after the task's loadconfig() and nothing else writes these keys in between
Restored(e, keys) ==
    [k \in EnvKeys |-> IF k \in keys THEN lastLoad.after[k] ELSE e[k]]

\* a remote call made inside a with-block: as Remote, and env is set to `envOk` when
\* the call succeeds (the block goes on, or ends after its last call) and to
\* `envAbort` when it fails (abort() leaves every enclosing block)
RemoteIn(step, cmd, arg, can, newTarget, next, envOk, envAbort) ==
    \E ok \in BOOLEAN :
        /\ ok => can
        /\ (~ok /\ can) => events < MaxEvents
        /\ events' = IF ~ok /\ can THEN events + 1 ELSE events
        /\ log' = Append(log, Cmd(step, cmd, arg, ok))
        /\ IF ok
           THEN target' = newTarget /\ env' = envOk /\ Goto(next)
           ELSE target' = target /\ env' = envAbort /\ AbortWith("remote")
        /\ UNCHANGED <<conf, task, startTarget, startEnv, lastLoad, loaded, prevSetup, prevRun, host0, cmdline>>

\* sudo(cmd) / append / sed / put without quiet: a non-zero exit aborts the task.
\* `can` tells whether the command can succeed on the host as it is.
Remote(step, cmd, arg, can, newTarget, next) ==
    \E ok \in BOOLEAN :
        /\ ok => can
        /\ (~ok /\ can) => events < MaxEvents
        /\ events' = IF ~ok /\ can THEN events + 1 ELSE events
        /\ log' = Append(log, Cmd(step, cmd, arg, ok))
        /\ IF ok
           THEN target' = newTarget /\ Goto(next)
           ELSE target' = target /\ AbortWith("remote")
        /\ UNCHANGED <<env, conf, task, startTarget, startEnv, lastLoad, loaded, prevSetup, prevRun, host0, cmdline>>

\* Faulty variant of Check: the branches are taken the wrong way round
CheckSwapped(step, path, whenThere, whenAbsent) ==
    \E lost \in BOOLEAN :
        /\ lost => events < MaxEvents
        /\ events' = IF lost THEN events + 1 ELSE events
        /\ IF lost
           THEN /\ log' = Append(log, Cmd(step, "exists", path, FALSE))
                /\ AbortWith("connection")
           ELSE /\ log' = Append(log, Cmd(step, "exists", path, exists(target, path)))
                /\ Goto(IF exists(target, path) THEN whenAbsent ELSE whenThere)

\* exists(path): a non-zero exit of the test is the answer "not there" and the result
\* picks the branch; when the connection to the host is lost during the call there
\* is no answer and the task is aborted (a network error, which warn_only does not cover)
Check(step, path, whenThere, whenAbsent) ==
    \E lost \in BOOLEAN :
        /\ lost => events < MaxEvents
        /\ events' = IF lost THEN events + 1 ELSE events
        /\ IF lost
           THEN /\ log' = Append(log, Cmd(step, "exists", path, FALSE))
                /\ AbortWith("connection")
           ELSE /\ log' = Append(log, Cmd(step, "exists", path, exists(target, path)))
                /\ Goto(IF exists(target, path) THEN whenThere ELSE whenAbsent)

(***************************************************************************)
(* The command line: tasks are started one after the other                 *)
(***************************************************************************)
StartTask(t) ==
    /\ pc = "idle"
    /\ events < MaxEvents
    /\ task' = t
    /\ pc' = t
    /\ idx' = 0
    /\ log' = <<>>
    /\ outcome' = "running"
    /\ abortKind' = ""
    /\ startTarget' = target
    /\ startEnv' = env
    /\ events' = events + 1
    /\ UNCHANGED <<env, conf, target, lastLoad, loaded, prevSetup, prevRun, host0, cmdline, sec>>

\* the task function has returned, or aborted.  abort() and an uncaught exception end
\* the fab process, so what runs after an aborted task runs in a new process, here
\* one started with the same command line: the module is imported again
\* (env.config_loaded = False) and the command line sets env anew.
Return ==
    /\ pc = "end"
    /\ pc' = "idle"
    /\ IF outcome = "aborted"
       THEN env' = FreshEnv(cmdline[1], cmdline[2])
       ELSE env' = env
    /\ prevSetup' = IF task = "setup" /\ outcome = "done" /\ \A i \in 1..Len(log) : ~Failed(log[i])
                    THEN env ELSE NoEnv
    /\ prevRun' = IF outcome = "aborted" /\ abortKind = "remote"
                  THEN [task |-> task, start |-> startTarget, env |-> env]
                  ELSE [task |-> "none", start |-> host0, env |-> NoEnv]
    /\ task' = "none"
    /\ idx' = 0
    /\ log' = <<>>
    /\ outcome' = "none"
    /\ abortKind' = ""
    /\ startTarget' = target
    /\ startEnv' = env'
    /\ lastLoad' = NoLoad
    /\ loaded' = IF outcome = "aborted" THEN NotLoaded ELSE loaded
    /\ UNCHANGED <<conf, target, events, host0, cmdline, sec>>

\* between two tasks a new fab process is started: the module is imported again
\* (env.config_loaded = False) and the command line sets env anew
NewProcess ==
    /\ pc = "idle"
    /\ 0 < events /\ events + 1 < MaxEvents
    /\ events' = events + 1
    /\ cmdline' \in CommandLines
    /\ env' = FreshEnv(cmdline'[1], cmdline'[2])
    /\ env' # env
    /\ startEnv' = env'
    /\ loaded' = NotLoaded
    /\ UNCHANGED <<prevSetup, prevRun, conf, target, task, pc, idx, log, outcome, abortKind, startTarget,
                   lastLoad, host0, sec>>

\* conf.json is edited between two tasks
EditConf ==
    /\ pc = "idle"
    /\ 0 < events /\ events + 1 < MaxEvents
    /\ events' = events + 1
    /\ conf' \in ConfStates \ {conf}
    /\ UNCHANGED <<env, target, task, pc, idx, log, outcome, abortKind, startTarget,
                   startEnv, lastLoad, loaded, prevSetup, prevRun, host0, cmdline, sec>>

(***************************************************************************)
(* defaultserver, setup                                                    *)
(***************************************************************************)
\* Faulty variant of defaultserver: the profile is pinned and loaded afresh
defaultserver_reload ==
    /\ pc = "defaultserver"
    /\ LET e == [env EXCEPT !["config_key"] = "default", !["config_loaded"] = PyFalse]
           r == LoadConfig(e, conf)
       IN  /\ env' = r.env
           /\ lastLoad' = [kind |-> r.kind, before |-> e, after |-> r.env, conf |-> conf]
           /\ loaded' = IF r.kind = "ok" THEN Selected(e, conf) ELSE loaded
           /\ IF r.kind = "abort" THEN AbortWith("config") ELSE Goto("end")
    /\ UNCHANGED <<conf, target, task, idx, log, startTarget, startEnv, prevSetup, prevRun, events,
                   host0, cmdline, sec>>

\* env.config_key = 'default'; loadconfig()
defaultserver ==
    /\ pc = "defaultserver"
    /\ LET e == [env EXCEPT !["config_key"] = "default"]
           r == LoadConfig(e, conf)
       IN  /\ env' = r.env
           /\ lastLoad' = [kind |-> r.kind, before |-> e, after |-> r.env, conf |-> conf]
           /\ loaded' = IF r.kind = "ok" THEN Selected(e, conf) ELSE loaded
           /\ IF r.kind = "abort" THEN AbortWith("config") ELSE Goto("end")
    /\ UNCHANGED <<conf, target, task, idx, log, startTarget, startEnv, prevSetup, prevRun, events, host0, cmdline, sec>>

setup ==
    /\ pc = "setup"
    /\ LET r == LoadConfig(env, conf)
       IN  /\ DoLoad(r)
           /\ IF r.kind = "abort" THEN AbortWith("config") ELSE Goto(setup_sequence[1])
    /\ UNCHANGED <<conf, target, task, idx, log, startTarget, startEnv, prevSetup, prevRun, events, host0, cmdline, sec>>

(***************************************************************************)
(* addadminuser, addsshkey                                                 *)
(***************************************************************************)
\* Faulty variant of addadminuser: the addsshkey call sits inside the
\* `if not exists(user_home)` block
addadminuser_key_in_block ==
    /\ pc = "addadminuser"
    /\ LET r == LoadConfig(env, conf)
           user_home == Home(r.env["admin_user"])
       IN  /\ DoLoad(r)
           /\ IF r.kind = "abort" \/ ~Require(r.env, {"admin_user", "admin_group"})
              THEN AbortWith("config") /\ log' = log /\ events' = events
              ELSE Check("addadminuser", user_home, After("addadminuser"), "adduser")
    /\ UNCHANGED <<conf, target, task, idx, startTarget, startEnv, prevSetup, prevRun, host0,
                   cmdline, sec>>

\* loadconfig(); require('admin_user', 'admin_group'); if not exists(user_home)
addadminuser ==
    /\ pc = "addadminuser"
    /\ LET r == LoadConfig(env, conf)
           user_home == Home(r.env["admin_user"])
       IN  /\ DoLoad(r)
           /\ IF r.kind = "abort" \/ ~Require(r.env, {"admin_user", "admin_group"})
              THEN AbortWith("config") /\ log' = log /\ events' = events
              ELSE Check("addadminuser", user_home, "addsshkey", "adduser")
    /\ UNCHANGED <<conf, target, task, idx, startTarget, startEnv, prevSetup, prevRun, host0, cmdline, sec>>

\* sudo('adduser {username} --disabled-password --gecos ""')
addadminuser_adduser ==
    /\ pc = "adduser"
    /\ LET u == env["admin_user"]
       IN  Remote("addadminuser", "adduser", u \o " --disabled-password",
                  u \notin target.users,
                  [target EXCEPT !.users = @ \cup {u}, !.dirs = @ \cup {Home(u)}],
                  "addgroup")
    /\ UNCHANGED <<idx, sec>>

\* sudo('adduser {username} {group}')
addadminuser_addgroup ==
    /\ pc = "addgroup"
    /\ LET u == env["admin_user"]
           g == env["admin_group"]
       IN  Remote("addadminuser", "adduser", u \o " " \o g, TRUE,
                  [target EXCEPT !.members = @ \cup {<<u, g>>}],
                  "sudoers")
    /\ UNCHANGED <<idx, sec>>

\* append('/etc/sudoers.d/{username}', '{username} ALL=(ALL) NOPASSWD:ALL'.format(...))
addadminuser_sudoers ==
    /\ pc = "sudoers"
    /\ LET u == env["admin_user"]
       IN  Remote("addadminuser", "append", SudoersFile, TRUE,
                  [target EXCEPT !.files = AppendText(@, SudoersFile, <<SudoersLine(u)>>)],
                  "addsshkey")
    /\ UNCHANGED <<idx, sec>>

\* if not exists(sshdir)
addsshkey ==
    /\ pc = "addsshkey"
    /\ Check("addsshkey", SshDir(env["admin_user"]), After("addadminuser"), "ssh_mkdir")
    /\ UNCHANGED <<env, conf, target, task, idx, startTarget, startEnv, lastLoad, loaded, prevSetup, prevRun,
                   host0, cmdline, sec>>

\* sudo('mkdir %s' % sshdir)
addsshkey_mkdir ==
    /\ pc = "ssh_mkdir"
    /\ LET u == env["admin_user"]
       IN  Remote("addsshkey", "mkdir", SshDir(u), Home(u) \in target.dirs,
                  [target EXCEPT !.dirs = @ \cup {SshDir(u)}],
                  "ssh_readkey")
    /\ UNCHANGED <<idx, sec>>

\* local_pub_key = open(local_pub_key_filename).read(): a local file, which may be absent
addsshkey_readkey ==
    /\ pc = "ssh_readkey"
    /\ \E ok \in BOOLEAN :
        /\ ~ok => events < MaxEvents
        /\ events' = IF ok THEN events ELSE events + 1
        /\ IF ok THEN Goto("ssh_cd") ELSE AbortWith("local")
    /\ UNCHANGED <<env, conf, target, task, idx, log, startTarget, startEnv, lastLoad, loaded,
                   prevSetup, prevRun, host0, cmdline, sec>>

\* with cd(sshdir): entering the block sets env.cwd
addsshkey_cd ==
    /\ pc = "ssh_cd"
    /\ env' = [env EXCEPT !["cwd"] = SshDir(env["admin_user"])]
    /\ Goto("ssh_append")
    /\ UNCHANGED <<conf, target, task, idx, log, startTarget, startEnv, lastLoad, loaded,
                   prevSetup, prevRun, host0, cmdline, sec, events>>

\* append('authorized_keys', local_pub_key, use_sudo=True), the path taken from
\* env.cwd; the block ends with this call and env.cwd is restored
addsshkey_append ==
    /\ pc = "ssh_append"
    /\ LET f == env["cwd"] \o "/authorized_keys"
       IN  RemoteIn("addsshkey", "append", f, TRUE,
                    [target EXCEPT !.files = AppendText(@, f, <<PubKey(env["admin_user"])>>)],
                    "ssh_chown",
                    Restored(env, {"cwd"}), Restored(env, {"cwd"}))
    /\ UNCHANGED <<idx, sec>>

\* sudo('chown -R {username}:{username} {sshdir}')
addsshkey_chown ==
    /\ pc = "ssh_chown"
    /\ LET u == env["admin_user"]
       IN  Remote("addsshkey", "chown", SshDir(u), TRUE,
                  [target EXCEPT !.owner = @ \cup {<<SshDir(u), u>>}],
                  "ssh_chmod")
    /\ UNCHANGED <<idx, sec>>

\* sudo('chmod go-rwx -R %s' % sshdir)
addsshkey_chmod ==
    /\ pc = "ssh_chmod"
    /\ LET u == env["admin_user"]
       IN  Remote("addsshkey", "chmod", SshDir(u), TRUE,
                  [target EXCEPT !.private = @ \cup {SshDir(u)}],
                  After("addadminuser"))
    /\ UNCHANGED <<idx, sec>>

(***************************************************************************)
(* securessh                                                               *)
(***************************************************************************)
\* Faulty variant of securessh: the loadconfig() call is missing
securessh_noload ==
    /\ pc = "securessh"
    /\ lastLoad' = [kind |-> "noop", before |-> env, after |-> env, conf |-> conf]
    /\ loaded' = loaded
    /\ \E ok \in BOOLEAN :
         /\ ~ok => events < MaxEvents
         /\ events' = IF ok THEN events ELSE events + 1
         /\ log' = Append(log, Cmd("securessh", "sed", "PermitRootLogin yes", ok))
         /\ IF ok
            THEN /\ target' = [target EXCEPT !.files =
                        SedFile(@, SshdConfig, "PermitRootLogin yes", "PermitRootLogin no")]
                 /\ Goto("sed2")
            ELSE target' = target /\ AbortWith("remote")
         /\ sec' = [sec EXCEPT !.started = @ + 1,
                               !.subs = IF ok /\ target'.files[SshdConfig] # target.files[SshdConfig]
                                        THEN @ + 1 ELSE @]
    /\ UNCHANGED <<env, conf, task, idx, startTarget, startEnv, prevSetup, prevRun, host0, cmdline>>

\* loadconfig(); sed(sshd_config, 'PermitRootLogin yes', 'PermitRootLogin no')
securessh ==
    /\ pc = "securessh"
    /\ LET r == LoadConfig(env, conf)
       IN  /\ DoLoad(r)
           /\ IF r.kind = "abort"
              THEN /\ AbortWith("config")
                   /\ UNCHANGED <<target, log, events, sec>>
              ELSE \E ok \in BOOLEAN :
                     /\ ~ok => events < MaxEvents
                     /\ events' = IF ok THEN events ELSE events + 1
                     /\ log' = Append(log, Cmd("securessh", "sed", "PermitRootLogin yes", ok))
                     /\ IF ok
                        THEN /\ target' = [target EXCEPT !.files =
                                    SedFile(@, SshdConfig, "PermitRootLogin yes", "PermitRootLogin no")]
                             /\ Goto("sed2")
                        ELSE target' = target /\ AbortWith("remote")
                     /\ sec' = [sec EXCEPT !.started = @ + 1,
                                           !.subs = IF ok /\ target'.files[SshdConfig] # target.files[SshdConfig]
                                                    THEN @ + 1 ELSE @]
    /\ UNCHANGED <<conf, task, idx, startTarget, startEnv, prevSetup, prevRun, host0, cmdline>>

\* sed(sshd_config, '#PasswordAuthentication yes', 'PasswordAuthentication no')
securessh_sed2 ==
    /\ pc = "sed2"
    /\ Remote("securessh", "sed", "#PasswordAuthentication yes", TRUE,
              [target EXCEPT !.files =
                  SedFile(@, SshdConfig, "#PasswordAuthentication yes", "PasswordAuthentication no")],
              "restart")
    /\ UNCHANGED <<idx, sec>>

\* sudo('service ssh restart'): the daemon now runs with the file as it is
securessh_restart ==
    /\ pc = "restart"
    /\ Remote("securessh", "service ssh restart", "", TRUE,
              [target EXCEPT !.sshdLive = target.files[SshdConfig]],
              After("securessh"))
    /\ sec' = [sec EXCEPT !.restarts = @ + 1,
                          !.completed = IF log'[Len(log')].ok THEN @ + 1 ELSE @]
    /\ UNCHANGED idx

(***************************************************************************)
(* setupfirewall                                                           *)
(***************************************************************************)
\* Faulty variant of setupfirewall: the `if exists(iptables_init_file): return`
\* guard is missing
setupfirewall_noguard ==
    /\ pc = "setupfirewall"
    /\ LET r == LoadConfig(env, conf)
       IN  /\ DoLoad(r)
           /\ IF r.kind = "abort" THEN AbortWith("config") ELSE Goto("fw_put")
    /\ UNCHANGED <<conf, target, task, idx, log, startTarget, startEnv, prevSetup, prevRun, host0, cmdline, sec,
                   events>>

\* loadconfig(); if exists(iptables_init_file): return
setupfirewall ==
    /\ pc = "setupfirewall"
    /\ LET r == LoadConfig(env, conf)
       IN  /\ DoLoad(r)
           /\ IF r.kind = "abort"
              THEN AbortWith("config") /\ log' = log /\ events' = events
              ELSE Check("setupfirewall", iptables_init_file, After("setupfirewall"), "fw_put")
    /\ UNCHANGED <<conf, target, task, idx, startTarget, startEnv, prevSetup, prevRun, host0, cmdline, sec>>

\* put(iptables_rules_file, '/etc/', use_sudo=True)
setupfirewall_put ==
    /\ pc = "fw_put"
    /\ Remote("setupfirewall", "put", iptables_rules_file, TRUE,
              [target EXCEPT !.files = WriteFile(@, iptables_rules_file, <<"*filter">>)],
              "fw_append")
    /\ UNCHANGED <<idx, sec>>

\* Faulty variant of setupfirewall_append: the script is invoked right after it is
\* written, before it is marked executable
setupfirewall_append_invoke ==
    /\ pc = "fw_append"
    /\ Remote("setupfirewall", "append", iptables_init_file, TRUE,
              [target EXCEPT !.files = AppendText(@, iptables_init_file, iptables_init_text)],
              "fw_invoke")
    /\ UNCHANGED <<idx, sec>>

\* append(iptables_init_file, iptables_init_text.strip(), use_sudo=True)
setupfirewall_append ==
    /\ pc = "fw_append"
    /\ Remote("setupfirewall", "append", iptables_init_file, TRUE,
              [target EXCEPT !.files = AppendText(@, iptables_init_file, iptables_init_text)],
              "fw_chmod")
    /\ UNCHANGED <<idx, sec>>

\* sudo('chmod +x %s' % iptables_init_file)
setupfirewall_chmod ==
    /\ pc = "fw_chmod"
    /\ Remote("setupfirewall", "chmod +x", iptables_init_file,
              iptables_init_file \in DOMAIN target.files,
              [target EXCEPT !.exec = @ \cup {iptables_init_file}],
              "fw_invoke")
    /\ UNCHANGED <<idx, sec>>

\* sudo(iptables_init_file): the script loads the uploaded rules
setupfirewall_invoke ==
    /\ pc = "fw_invoke"
    /\ Remote("setupfirewall", "run", iptables_init_file,
              iptables_init_file \in target.exec /\ iptables_rules_file \in DOMAIN target.files,
              [target EXCEPT !.fwActive = TRUE],
              After("setupfirewall"))
    /\ UNCHANGED <<idx, sec>>

(***************************************************************************)
(* installpackages                                                         *)
(***************************************************************************)
\* Faulty variant of install_package: a package the host has installed is skipped
install_package_query(t, pkg_name) ==
    IF pkg_name \in t.installed
    THEN [target |-> t, cmds |-> <<>>]
    ELSE LET ok == pkg_name \notin t.unavailable
         IN  [target |-> IF ok THEN [t EXCEPT !.installed = @ \cup {pkg_name}] ELSE t,
              cmds   |-> <<[step |-> "installpackages", cmd |-> "apt install",
                            arg |-> pkg_name, ok |-> ok]>>]

\* sudo('apt --yes install {0}'.format(pkg_name), quiet=True): the install exits
\* non-zero exactly for a package the host cannot get, and that is only warned about
install_package(t, pkg_name) ==
    LET ok == pkg_name \notin t.unavailable
    IN  [target |-> IF ok THEN [t EXCEPT !.installed = @ \cup {pkg_name}] ELSE t,
         cmds   |-> <<Cmd("installpackages", "apt install", pkg_name, ok)>>]

\* how a call made with quiet=True may end: exit zero, a non-zero exit (warned about,
\* the task goes on), or the connection to the host is lost while the call waits
\* (a network error, which quiet does not cover: the task is aborted)
QuietResults == {"ok", "nonzero", "lost"}

\* Faulty variant of installpackages: `apt update` is called without quiet=True, so
\* its non-zero exit aborts the task
installpackages_noquiet ==
    /\ pc = "installpackages"
    /\ LET r == LoadConfig(env, conf)
       IN  /\ DoLoad(r)
           /\ IF r.kind = "abort"
              THEN /\ AbortWith("config")
                   /\ UNCHANGED <<target, log, events, idx>>
              ELSE \E res \in QuietResults :
                     /\ res # "ok" => events < MaxEvents
                     /\ events' = IF res = "ok" THEN events ELSE events + 1
                     /\ log' = Append(log, Cmd("installpackages", "apt update", "", res = "ok"))
                     /\ target' = IF res = "ok" THEN [target EXCEPT !.aptFresh = TRUE] ELSE target
                     /\ IF res = "ok"
                        THEN Goto("apt_install") /\ idx' = 1
                        ELSE AbortWith(IF res = "lost" THEN "connection" ELSE "remote") /\ idx' = idx
    /\ UNCHANGED <<conf, task, startTarget, startEnv, prevSetup, prevRun, host0, cmdline, sec>>

\* loadconfig(); sudo('apt update', quiet=True)
installpackages ==
    /\ pc = "installpackages"
    /\ LET r == LoadConfig(env, conf)
       IN  /\ DoLoad(r)
           /\ IF r.kind = "abort"
              THEN /\ AbortWith("config")
                   /\ UNCHANGED <<target, log, events, idx>>
              ELSE \E res \in QuietResults :
                     /\ res # "ok" => events < MaxEvents
                     /\ events' = IF res = "ok" THEN events ELSE events + 1
                     /\ log' = Append(log, Cmd("installpackages", "apt update", "", res = "ok"))
                     /\ target' = IF res = "ok" THEN [target EXCEPT !.aptFresh = TRUE] ELSE target
                     /\ IF res = "lost"
                        THEN AbortWith("connection") /\ idx' = idx
                        ELSE Goto("apt_install") /\ idx' = 1
    /\ UNCHANGED <<conf, task, startTarget, startEnv, prevSetup, prevRun, host0, cmdline, sec>>

\* for index, pkg_name in enumerate(pkg_list, start=1): install_package(pkg_name)
\* one blocking remote call per package
installpackages_install ==
    /\ pc = "apt_install"
    /\ LET pkg_name == pkg_list[idx]
           r == install_package(target, pkg_name)
           last == idx = Len(pkg_list)
       IN  \E lost \in BOOLEAN :
             /\ lost => events < MaxEvents
             /\ events' = IF lost THEN events + 1 ELSE events
             /\ IF lost
                THEN /\ log' = Append(log, Cmd("installpackages", "apt install", pkg_name, FALSE))
                     /\ target' = target
                     /\ idx' = idx
                     /\ AbortWith("connection")
                ELSE /\ log' = log \o r.cmds
                     /\ target' = r.target
                     /\ idx' = IF last THEN 0 ELSE idx + 1
                     /\ Goto(IF last THEN After("installpackages") ELSE "apt_install")
    /\ UNCHANGED <<env, conf, task, startTarget, startEnv, lastLoad, loaded, prevSetup, prevRun, host0,
                   cmdline, sec>>

(***************************************************************************)
(* setupdjangoapp                                                          *)
(***************************************************************************)
\* The calls of this task are made under settings(sudo_user=..., quiet=True); quiet
\* is honoured as an argument of sudo() only, so these calls abort on a non-zero exit.
AppDirs(app) == <<app, "logs", "static", "media">>
AppDownloads == <<"get-pip.py", "get-poetry.py">>

\* Faulty variant of setupdjangoapp: the task returns when the app home exists
setupdjangoapp_return ==
    /\ pc = "setupdjangoapp"
    /\ LET r == LoadConfig(env, conf)
       IN  /\ DoLoad(r)
           /\ IF r.kind = "abort" \/ ~Require(r.env, {"app_name"})
              THEN AbortWith("config") /\ log' = log /\ events' = events
              ELSE Check("setupdjangoapp", Home(r.env["app_name"]), "end", "app_adduser")
    /\ UNCHANGED <<conf, target, task, idx, startTarget, startEnv, prevSetup, prevRun, host0, cmdline,
                   sec>>

\* loadconfig(); require('app_name'); if not exists(app_home)
setupdjangoapp ==
    /\ pc = "setupdjangoapp"
    /\ LET r == LoadConfig(env, conf)
       IN  /\ DoLoad(r)
           /\ IF r.kind = "abort" \/ ~Require(r.env, {"app_name"})
              THEN AbortWith("config") /\ log' = log /\ events' = events
              ELSE Check("setupdjangoapp", Home(r.env["app_name"]), "createuser", "app_adduser")
    /\ UNCHANGED <<conf, target, task, idx, startTarget, startEnv, prevSetup, prevRun, host0, cmdline, sec>>

\* sudo('adduser {username} --disabled-password --disabled-login --gecos ""')
setupdjangoapp_adduser ==
    /\ pc = "app_adduser"
    /\ LET a == env["app_name"]
       IN  Remote("setupdjangoapp", "adduser", a \o " --disabled-password --disabled-login",
                  a \notin target.users,
                  [target EXCEPT !.users = @ \cup {a}, !.dirs = @ \cup {Home(a)}],
                  "app_settings")
    /\ UNCHANGED <<idx, sec>>

\* with settings(sudo_user=env.app_name, quiet=True): entering the block sets
\* env.sudo_user and env.quiet
setupdjangoapp_settings ==
    /\ pc = "app_settings"
    /\ env' = [env EXCEPT !["sudo_user"] = env["app_name"], !["quiet"] = PyTrue]
    /\ Goto("keygen")
    /\ UNCHANGED <<conf, target, task, idx, log, startTarget, startEnv, lastLoad, loaded,
                   prevSetup, prevRun, host0, cmdline, sec, events>>

\* sudo('ssh-keygen -f "{0}/.ssh/id_rsa" -t rsa -N ""'), run as the app user:
\* ssh-keygen makes the .ssh directory itself, owned by the app user and private
setupdjangoapp_keygen ==
    /\ pc = "keygen"
    /\ LET a == env["app_name"]
       IN  RemoteIn("setupdjangoapp", "ssh-keygen", SshDir(a) \o "/id_rsa", TRUE,
                  [target EXCEPT !.dirs = @ \cup {SshDir(a)},
                                 !.files = WriteFile(WriteFile(@, SshDir(a) \o "/id_rsa", <<"key">>),
                                                     SshDir(a) \o "/id_rsa.pub", <<PubKey(a)>>),
                                 !.owner = @ \cup {<<SshDir(a), a>>},
                                 !.private = @ \cup {SshDir(a)}],
                  "catkey",
                  env, Restored(env, {"sudo_user", "quiet"}))
    /\ UNCHANGED <<idx, sec>>

\* sudo('cat {0}/.ssh/id_rsa.pub')
setupdjangoapp_catkey ==
    /\ pc = "catkey"
    /\ LET a == env["app_name"]
       IN  RemoteIn("setupdjangoapp", "cat", SshDir(a) \o "/id_rsa.pub",
                    (SshDir(a) \o "/id_rsa.pub") \in DOMAIN target.files,
                    target, "app_cd",
                    env, Restored(env, {"sudo_user", "quiet"}))
    /\ UNCHANGED <<idx, sec>>

\* with settings(cd(app_home), shell_env(HOME=app_home)): entering the block sets
\* env.cwd and env.shell_env
setupdjangoapp_cd ==
    /\ pc = "app_cd"
    /\ LET app_home == Home(env["app_name"])
       IN  env' = [env EXCEPT !["cwd"] = app_home, !["shell_env"] = "HOME=" \o app_home]
    /\ idx' = 1
    /\ Goto("app_mkdir")
    /\ UNCHANGED <<conf, target, task, log, startTarget, startEnv, lastLoad, loaded,
                   prevSetup, prevRun, host0, cmdline, sec, events>>

\* sudo('mkdir <app_name>'), sudo('mkdir logs'), sudo('mkdir static'), sudo('mkdir media')
setupdjangoapp_mkdir ==
    /\ pc = "app_mkdir"
    /\ LET a == env["app_name"]
           d == env["cwd"] \o "/" \o AppDirs(a)[idx]
           last == idx = Len(AppDirs(a))
       IN  /\ RemoteIn("setupdjangoapp", "mkdir", d, d \notin target.dirs,
                       [target EXCEPT !.dirs = @ \cup {d}],
                       IF last THEN "app_curl" ELSE "app_mkdir",
                       env, Restored(env, ScopedKeys))
           /\ idx' = IF last THEN 1 ELSE idx + 1
    /\ UNCHANGED sec

\* sudo('curl .../get-pip.py -o get-pip.py'), sudo('curl .../get-poetry.py -o get-poetry.py')
setupdjangoapp_curl ==
    /\ pc = "app_curl"
    /\ LET f == env["cwd"] \o "/" \o AppDownloads[idx]
           last == idx = Len(AppDownloads)
       IN  /\ RemoteIn("setupdjangoapp", "curl", f, TRUE,
                       [target EXCEPT !.files = WriteFile(@, f, <<"installer">>)],
                       IF last THEN "createuser" ELSE "app_curl",
                       IF last THEN Restored(env, ScopedKeys) ELSE env,
                       Restored(env, ScopedKeys))
           /\ idx' = IF last THEN 0 ELSE idx + 1
    /\ UNCHANGED sec

\* sudo('createuser %(app_name)s --pwprompt' % env, user='postgres')
setupdjangoapp_createuser ==
    /\ pc = "createuser"
    /\ LET a == env["app_name"]
       IN  Remote("setupdjangoapp", "createuser", a, a \notin target.pgRoles,
                  [target EXCEPT !.pgRoles = @ \cup {a}],
                  "createdb")
    /\ UNCHANGED <<idx, sec>>

\* sudo('createdb %(app_name)s --owner=%(app_name)s' % env, user='postgres')
setupdjangoapp_createdb ==
    /\ pc = "createdb"
    /\ LET a == env["app_name"]
       IN  Remote("setupdjangoapp", "createdb", a,
                  a \notin target.pgDbs /\ a \in target.pgRoles,
                  [target EXCEPT !.pgDbs = @ \cup {a}],
                  "end")
    /\ UNCHANGED <<idx, sec>>

(***************************************************************************)
(* Specification                                                           *)
(***************************************************************************)
Next ==
    \/ \E t \in Tasks : StartTask(t)
    \/ Return
    \/ NewProcess
    \/ EditConf
    \/ defaultserver
    \/ setup
    \/ addadminuser
    \/ addadminuser_adduser
    \/ addadminuser_addgroup
    \/ addadminuser_sudoers
    \/ addsshkey
    \/ addsshkey_mkdir
    \/ addsshkey_readkey
    \/ addsshkey_cd
    \/ addsshkey_append
    \/ addsshkey_chown
    \/ addsshkey_chmod
    \/ securessh
    \/ securessh_sed2
    \/ securessh_restart
    \/ setupfirewall
    \/ setupfirewall_put
    \/ setupfirewall_append
    \/ setupfirewall_chmod
    \/ setupfirewall_invoke
    \/ installpackages
    \/ installpackages_install
    \/ setupdjangoapp
    \/ setupdjangoapp_adduser
    \/ setupdjangoapp_settings
    \/ setupdjangoapp_keygen
    \/ setupdjangoapp_catkey
    \/ setupdjangoapp_cd
    \/ setupdjangoapp_mkdir
    \/ setupdjangoapp_curl
    \/ setupdjangoapp_createuser
    \/ setupdjangoapp_createdb

Spec == Init /\ [][Next]_vars

(***************************************************************************)
(* Reading the log of the running (or just ended) task invocation          *)
(***************************************************************************)
LogIdx == 1..Len(log)

\* the invocation ended by returning normally
Done(t) == task = t /\ pc = "end" /\ outcome = "done"

\* no remote call of the invocation exited non-zero
Clean == \A i \in LogIdx : ~Failed(log[i])

\* the calls of the log made from `step` with command `cmd`
Calls(step, cmd) == SelectSeq(log, LAMBDA c : c.step = step /\ c.cmd = cmd)

\* a non-zero exit of a call made with quiet=True, or of an exists check, aborts nothing
Tolerant(c) == c.cmd \in {"exists", "apt update", "apt install"}

\* the commands inside the guarded block of each guarded step
GuardedCmds(step) ==
    CASE step = "addadminuser"   -> {"adduser", "append"}
      [] step = "addsshkey"      -> {"mkdir", "append", "chown", "chmod"}
      [] step = "setupfirewall"  -> {"put", "append", "chmod +x", "run"}
      [] step = "setupdjangoapp" -> {"adduser", "ssh-keygen", "cat", "mkdir", "curl"}
      [] OTHER                   -> {}

HasLine(t, path, text) ==
    path \in DOMAIN t.files /\ \E i \in 1..Len(t.files[path]) : Contains(t.files[path][i], text)

(***************************************************************************)
(* C1  setup run twice                                                     *)
(***************************************************************************)
\* a `setup` that completed with every command succeeding, right after another
\* such `setup` run under the same configuration
SetupAgain == Done("setup") /\ Clean /\ prevSetup = env

\* the files but the one at path
FilesBut(files, path) == [q \in (DOMAIN files) \ {path} |-> files[q]]

\* C1 as stated: the second of two successive successful `setup` runs leaves the host
\* in the same state as the first one left it
C1_Original ==
    SetupAgain => target = startTarget

\* C1 (amended): the second of two successive successful `setup` runs leaves the host
\* as the first one left it, but for the backup copy sshd_config.bak, which the sed
\* calls write anew and which ends up equal to the edited sshd_config; it creates no
\* user, installs no key and no firewall, and its sed calls leave sshd_config as it was.
C1_SetupTwiceSameButBackup ==
    SetupAgain =>
        /\ [target EXCEPT !.files = FilesBut(@, Backup(SshdConfig))]
              = [startTarget EXCEPT !.files = FilesBut(@, Backup(SshdConfig))]
        /\ target.files[Backup(SshdConfig)] = target.files[SshdConfig]
        /\ \A i \in LogIdx :
              log[i].cmd \in {"exists", "sed", "service ssh restart", "apt update", "apt install"}

C1_Witness ==
    /\ SetupAgain
    /\ host0.users = {} /\ ~host0.fwActive
    /\ "ops" \in target.users /\ target.fwActive
    /\ HasLine(host0, SshdConfig, "PermitRootLogin yes")
    /\ ~HasLine(target, SshdConfig, "PermitRootLogin yes")

(***************************************************************************)
(* C2  a guarded step whose precondition holds does nothing                *)
(***************************************************************************)
\* C2: when the exists check of a guarded step (addadminuser, addsshkey,
\* setupfirewall, setupdjangoapp) finds its path, no command of that step's guarded
\* block is issued in the invocation.
C2_GuardHoldsNoAction ==
    \A i \in LogIdx :
        (log[i].cmd = "exists" /\ log[i].ok) =>
            \A j \in LogIdx :
                ~(log[j].step = log[i].step /\ log[j].cmd \in GuardedCmds(log[i].step))

C2_Witness ==
    /\ Done("setup")
    /\ Len(Calls("addadminuser", "exists")) = 1 /\ Calls("addadminuser", "exists")[1].ok
    /\ Len(Calls("addsshkey", "exists")) = 1 /\ Calls("addsshkey", "exists")[1].ok
    /\ Len(Calls("setupfirewall", "exists")) = 1 /\ Calls("setupfirewall", "exists")[1].ok

(***************************************************************************)
(* C3  adduser calls of addadminuser                                       *)
(***************************************************************************)
AdminHomeWasThere ==
    Home(env["admin_user"]) \in startTarget.dirs \cup DOMAIN startTarget.files

\* C3 as stated: a completed addadminuser run has issued exactly one adduser call
\* when the admin home was absent, and none when it was there
C3_Original ==
    Done("addadminuser") =>
        Len(Calls("addadminuser", "adduser")) = IF AdminHomeWasThere THEN 0 ELSE 1

\* C3 (amended): addadminuser issues no adduser call when the admin home exists; when
\* it does not, a completed run has issued exactly two, first the one creating the
\* account and then the one adding it to the admin group.
C3_AdduserCalls ==
    task = "addadminuser" /\ lastLoad.kind \in {"ok", "noop"} /\ Len(log) > 0 =>
        LET calls == Calls("addadminuser", "adduser")
            u == env["admin_user"]
        IN  /\ AdminHomeWasThere => Len(calls) = 0
            /\ Len(calls) <= 2
            /\ Len(calls) >= 1 => calls[1].arg = u \o " --disabled-password"
            /\ Len(calls) = 2 => calls[2].arg = u \o " " \o env["admin_group"]
            /\ (Done("addadminuser") /\ ~AdminHomeWasThere) => Len(calls) = 2

C3_Witness ==
    /\ Done("addadminuser")
    /\ ~AdminHomeWasThere
    /\ env["admin_user"] \in target.users

(***************************************************************************)
(* C4  securessh run n times                                               *)
(***************************************************************************)
\* no securessh call is under way, none was aborted, and at least one completed
SecuresshRanFine ==
    /\ pc \notin {"sed2", "restart"}
    /\ sec.completed >= 1
    /\ sec.started = sec.completed
    /\ HasLine(host0, SshdConfig, "PermitRootLogin yes")

\* C4 as stated: however many times securessh ran, there was one effective
\* substitution and one restart call in total
C4_Original == SecuresshRanFine => sec.subs = 1 /\ sec.restarts = 1

\* C4 (amended): on a host whose sshd_config held `PermitRootLogin yes`, n >= 1
\* securessh runs make exactly one effective substitution in total, and one service
\* restart call per run, n in total.
C4_OneSubstitutionRestartPerRun ==
    SecuresshRanFine =>
        /\ sec.subs = 1
        /\ sec.restarts = sec.completed
        /\ ~HasLine(target, SshdConfig, "PermitRootLogin yes")
        /\ HasLine(target, SshdConfig, "PermitRootLogin no")

C4_Witness == SecuresshRanFine /\ sec.completed >= 2 /\ pc = "end"

(***************************************************************************)
(* C5  installpackages                                                     *)
(***************************************************************************)
\* the package names of the install commands issued, in order
InstallArgs == [i \in 1..Len(Calls("installpackages", "apt install")) |->
                   Calls("installpackages", "apt install")[i].arg]

\* pkg_list without the packages the host had installed when the task started
NotYetInstalled == SelectSeq(pkg_list, LAMBDA p : p \notin startTarget.installed)

\* C5: installpackages issues no install command for a package the host already has
\* installed, and installs all the others in the declared order.
C5_SkipsInstalledKeepsOrder ==
    Done("installpackages") => InstallArgs = NotYetInstalled

\* What the code does instead: install_package asks no package query, so one install
\* command is issued for every package of the list, in the declared order.
InstallsWholeListInOrder ==
    Done("installpackages") =>
        /\ InstallArgs = pkg_list
        /\ startTarget.installed \subseteq target.installed

(***************************************************************************)
(* C6  loadconfig is idempotent                                            *)
(***************************************************************************)
\* C6: a loadconfig call made while the context is marked loaded changes nothing,
\* whatever conf.json and config_key are by then; and after a load that succeeded,
\* loading again (same or other document, same or other profile key) gives the same
\* context as the one load did.
C6_LoadIdempotent ==
    /\ Truthy(lastLoad.before["config_loaded"]) /\ lastLoad.kind # "none" =>
          lastLoad.kind = "noop" /\ lastLoad.after = lastLoad.before
    /\ lastLoad.kind \in {"ok", "noop"} =>
          \A c \in ConfStates : \A k \in ProfileNames \cup {Unset, lastLoad.after["config_key"]} :
              LET e == [lastLoad.after EXCEPT !["config_key"] = k]
              IN  LoadConfig(e, c).env = e /\ LoadConfig(e, c).kind = "noop"

\* a second load in a process that loaded profile prod, made after the profile key
\* was set to default and with conf.json gone
C6_Witness ==
    /\ lastLoad.kind = "noop"
    /\ lastLoad.conf.state = "missing"
    /\ lastLoad.after["admin_user"] = "adm"
    /\ lastLoad.after["config_key"] = "default"

(***************************************************************************)
(* C7  loading a profile the document does not have                        *)
(***************************************************************************)
MissingProfileLoad ==
    /\ lastLoad.kind # "none"
    /\ ~Truthy(lastLoad.before["config_loaded"])
    /\ lastLoad.before["config_key"] # Unset
    /\ lastLoad.conf.state = "ok"
    /\ lastLoad.before["config_key"] \notin DOMAIN lastLoad.conf.doc

\* C7: loading with a profile key the document lacks aborts the task and changes no
\* entry of env; the loaded flag stays false, so the next loadconfig call loads again.
C7_MissingProfileAborts ==
    MissingProfileLoad =>
        /\ lastLoad.kind = "abort"
        /\ outcome = "aborted" /\ abortKind = "config" /\ pc = "end"
        /\ lastLoad.after = lastLoad.before /\ env = lastLoad.before
        /\ ~Truthy(env["config_loaded"])
        /\ log = <<>>
        /\ \A c \in ConfStates : LoadConfig(env, c).kind # "noop"

C7_Witness ==
    /\ MissingProfileLoad
    /\ lastLoad.before["config_key"] = "prod"
    /\ task = "setup"

(***************************************************************************)
(* C8  what a successful load merges                                       *)
(***************************************************************************)
LoadedProfile == lastLoad.conf.doc[lastLoad.before["config_key"]]

\* C8 as stated: after a successful load every key of the profile holds the
\* profile's value and every other key but the loaded flag is unchanged
C8_Original ==
    lastLoad.kind = "ok" =>
        /\ \A k \in DOMAIN LoadedProfile : lastLoad.after[k] = LoadedProfile[k]
        /\ \A k \in EnvKeys \ (DOMAIN LoadedProfile \cup {"config_loaded"}) :
              lastLoad.after[k] = lastLoad.before[k]

\* C8 (amended): after a successful load of profile P every key of P other than
\* config_loaded maps to P's value, whatever it held before; every other key but
\* config_loaded keeps its value; config_loaded is True even when P gives it a value.
C8_MergeOverwrites ==
    lastLoad.kind = "ok" =>
        /\ \A k \in (DOMAIN LoadedProfile) \ {"config_loaded"} :
              lastLoad.after[k] = LoadedProfile[k]
        /\ \A k \in EnvKeys \ (DOMAIN LoadedProfile \cup {"config_loaded"}) :
              lastLoad.after[k] = lastLoad.before[k]
        /\ lastLoad.after["config_loaded"] = PyTrue

\* a load that replaced the admin_user given on the command line
C8_Witness ==
    /\ lastLoad.kind = "ok"
    /\ lastLoad.before["admin_user"] = "root"
    /\ lastLoad.after["admin_user"] = "ops"
    /\ lastLoad.after["config_key"] = "default"

(***************************************************************************)
(* C9  setup runs its four tasks in order                                  *)
(***************************************************************************)
StepRank(step) ==
    CASE step \in {"addadminuser", "addsshkey"} -> 1
      [] step = "securessh"                    -> 2
      [] step = "setupfirewall"                -> 3
      [] step = "installpackages"              -> 4
      [] OTHER                                 -> 0

\* C9: in a setup invocation the remote calls come grouped by task, add-admin-user
\* first, then secure-ssh, then setup-firewall, then install-packages; no call of
\* setup-app-user is issued; a setup that completes has entered each task once.
C9_SetupOrder ==
    task = "setup" =>
        /\ \A i, j \in LogIdx : i < j => StepRank(log[i].step) <= StepRank(log[j].step)
        /\ \A i \in LogIdx : StepRank(log[i].step) >= 1
        /\ Done("setup") =>
              /\ Len(Calls("addadminuser", "exists")) = 1
              /\ Len(Calls("addsshkey", "exists")) = 1
              /\ Len(SelectSeq(log, LAMBDA c : c.cmd = "sed" /\ c.arg = "PermitRootLogin yes")) = 1
              /\ Len(Calls("securessh", "service ssh restart")) = 1
              /\ Len(Calls("setupfirewall", "exists")) = 1
              /\ Len(Calls("installpackages", "apt update")) = 1
              /\ log[1].step = "addadminuser"
              /\ log[Len(log)].step = "installpackages"

C9_Witness ==
    /\ Done("setup")
    /\ Len(Calls("addadminuser", "adduser")) = 2
    /\ Len(Calls("setupfirewall", "run")) = 1

(***************************************************************************)
(* C10  fail-fast, no rollback                                             *)
(***************************************************************************)
\* a call that was not made tolerant exited non-zero
HardFailure(c) == ~c.ok /\ ~Tolerant(c)

FailedCallIsLast ==
    \A i \in LogIdx :
        HardFailure(log[i]) => i = Len(log) /\ pc = "end" /\ outcome = "aborted"

\* C10: a non-zero exit of a call that is not tolerant ends the invocation: the
\* failed call is the last call of the log; and the abort leaves the host as the
\* calls before it made it, until the next task starts.
C10_FailFast ==
    /\ [](FailedCallIsLast)
    /\ [][ /\ (outcome = "running" /\ outcome' = "aborted") => target' = target
           /\ pc = "end" => (target' = target /\ log' \in {log, <<>>}) ]_vars

C10_Witness ==
    /\ pc = "end" /\ outcome = "aborted" /\ abortKind = "remote"
    /\ task = "setup"
    /\ Len(log) >= 3
    /\ HardFailure(log[Len(log)])
    /\ target # startTarget

(***************************************************************************)
(* C11  rerun after an abort                                               *)
(***************************************************************************)
\* the host addsshkey(u) leaves when every command of it succeeds
AddSshKeyEnd(t, u) ==
    IF exists(t, SshDir(u)) THEN t
    ELSE [t EXCEPT !.dirs = @ \cup {SshDir(u)},
                   !.files = AppendText(@, AuthorizedKeys(u), <<PubKey(u)>>),
                   !.owner = @ \cup {<<SshDir(u), u>>},
                   !.private = @ \cup {SshDir(u)}]

\* the host addadminuser leaves when every command of it succeeds
AddAdminUserEnd(t, u, g) ==
    AddSshKeyEnd(IF exists(t, Home(u)) THEN t
                 ELSE [t EXCEPT !.users = @ \cup {u},
                                !.dirs = @ \cup {Home(u)},
                                !.members = @ \cup {<<u, g>>},
                                !.files = AppendText(@, SudoersFile, <<SudoersLine(u)>>)],
                 u)

\* the host setupfirewall leaves when every command of it succeeds
SetupFirewallEnd(t) ==
    IF exists(t, iptables_init_file) THEN t
    ELSE [t EXCEPT !.files = AppendText(WriteFile(@, iptables_rules_file, <<"*filter">>),
                                        iptables_init_file, iptables_init_text),
                   !.exec = @ \cup {iptables_init_file},
                   !.fwActive = TRUE]

\* the host a single uninterrupted successful run of task t leaves, started on host s
UninterruptedEnd(t, s, e) ==
    IF t = "addadminuser" THEN AddAdminUserEnd(s, e["admin_user"], e["admin_group"])
    ELSE SetupFirewallEnd(s)

\* a run of addadminuser or setupfirewall that completed with every command
\* succeeding ends on the host UninterruptedEnd gives
UninterruptedEndIsWhatARunLeaves ==
    (task \in {"addadminuser", "setupfirewall"} /\ pc = "end" /\ outcome = "done" /\ Clean) =>
        target = UninterruptedEnd(task, startTarget, env)

\* the task was aborted by a failed remote command, then run again under the same
\* configuration, and this time every command succeeded
RerunAfterAbort ==
    /\ task \in {"addadminuser", "setupfirewall"}
    /\ prevRun.task = task /\ prevRun.env = env
    /\ pc = "end" /\ outcome = "done" /\ Clean

\* C11: when a task was aborted by a failed remote command, rerunning it with every
\* command succeeding brings the host to the state one uninterrupted successful run
\* from the original host would have left (admin user with group membership, sudoers
\* line and key; firewall script written, executable and invoked).
C11_RerunRecovers ==
    RerunAfterAbort => target = UninterruptedEnd(task, prevRun.start, env)

\* the reruns that do recover: the command that failed was the first one of a
\* guarded block, so the guard's path was still absent at the rerun
RerunRecoversWhenGuardPathAbsent ==
    (RerunAfterAbort /\ startTarget = prevRun.start) =>
        target = UninterruptedEnd(task, prevRun.start, env)

(***************************************************************************)
(* C12  configuration errors come before any remote call                   *)
(***************************************************************************)
\* the keys the running task requires after loading
RequiredKeys ==
    CASE task \in {"addadminuser", "setup"} -> {"admin_user", "admin_group"}
      [] task = "setupdjangoapp"             -> {"app_name"}
      [] OTHER                               -> {}

\* the latest load of the running task found no profile key in env, no readable
\* conf.json or a profile key the document lacks
ConfigWrong ==
    /\ lastLoad.kind # "none"
    /\ \/ lastLoad.before["config_key"] = Unset
       \/ lastLoad.conf.state # "ok"
       \/ lastLoad.before["config_key"] \notin DOMAIN lastLoad.conf.doc

\* the same, and the load was made with the context not yet marked loaded
LoadInputWrong ==
    /\ ~Truthy(lastLoad.before["config_loaded"])
    /\ ConfigWrong

\* the load went through and a key the task requires is not in env
RequiredKeyAbsent ==
    /\ lastLoad.kind \in {"ok", "noop"}
    /\ \E k \in RequiredKeys : env[k] = Unset

\* C12 as stated, its part about remote calls: a task that has made its loadconfig
\* call with the profile key unset, conf.json missing or unreadable, or the profile
\* missing from it, and a task that lacks a key it requires, has issued no remote
\* call and has left the host untouched.
C12_Original ==
    (task # "none" /\ (ConfigWrong \/ RequiredKeyAbsent)) =>
        /\ log = <<>>
        /\ target = startTarget

\* C12 (amended): a task whose load is made, the context not yet marked loaded, with
\* the profile key unset, conf.json missing or unreadable, or the profile missing,
\* and a task that lacks a key it requires (admin_user/admin_group for addadminuser
\* and setup, app_name for setupdjangoapp), aborts with a configuration error
\* having issued no remote call at all, exists checks included, and leaves the
\* host untouched.
C12_ConfigErrorBeforeRemote ==
    /\ LoadInputWrong => lastLoad.kind = "abort"
    /\ (task # "none" /\ (lastLoad.kind = "abort" \/ RequiredKeyAbsent)) =>
          /\ log = <<>>
          /\ target = startTarget
          /\ pc # "addadminuser" =>
                pc = "end" /\ outcome = "aborted" /\ abortKind = "config"

\* setup on a fresh host with a profile that has no admin_group: aborted inside
\* addadminuser, after a load that succeeded
C12_Witness ==
    /\ task = "setup" /\ pc = "end" /\ outcome = "aborted" /\ abortKind = "config"
    /\ lastLoad.kind = "noop"
    /\ env["admin_user"] = "ops" /\ env["admin_group"] = Unset
    /\ ~exists(target, Home("ops"))
    /\ log = <<>>

(***************************************************************************)
(* C13  setupdjangoapp when the app home exists                            *)
(***************************************************************************)
\* setupdjangoapp got past its exists check and the app home was there
AppHomeWasThere ==
    /\ task = "setupdjangoapp"
    /\ Len(log) > 0
    /\ Home(env["app_name"]) \in startTarget.dirs \cup DOMAIN startTarget.files

\* C13 as stated: with the app home there, setupdjangoapp issues no state-changing
\* command and leaves users, files, database roles and databases as they were
C13_Original ==
    AppHomeWasThere =>
        /\ \A i \in LogIdx : log[i].cmd = "exists"
        /\ target = startTarget

\* C13 (amended): with the app home there, setupdjangoapp issues none of the commands
\* of its guarded block and leaves users, directories and files as they were; it
\* still issues createuser and then createdb, and a run that completes has added the
\* database role and the database of the app.
C13_SkipsGuardedBlockOnly ==
    AppHomeWasThere =>
        LET a == env["app_name"]
        IN  /\ \A i \in LogIdx : log[i].cmd \notin GuardedCmds("setupdjangoapp")
            /\ target.users = startTarget.users
            /\ target.dirs = startTarget.dirs
            /\ target.files = startTarget.files
            /\ \A i \in LogIdx : i >= 2 => log[i].cmd = (IF i = 2 THEN "createuser" ELSE "createdb")
            /\ Len(log) <= 3
            /\ Done("setupdjangoapp") =>
                  /\ Len(log) = 3
                  /\ target.pgRoles = startTarget.pgRoles \cup {a}
                  /\ target.pgDbs = startTarget.pgDbs \cup {a}
                  /\ target # startTarget

C13_Witness ==
    /\ AppHomeWasThere
    /\ Done("setupdjangoapp")
    /\ log[1].cmd = "exists" /\ log[1].ok
    /\ env["app_name"] \in target.pgDbs

(***************************************************************************)
(* C14  who writes env                                                     *)
(***************************************************************************)
\* the keys a with-block has set while control is at `p`: cwd inside `with cd(sshdir)`,
\* sudo_user and quiet inside `with settings(sudo_user=..., quiet=True)`, and all
\* four inside the nested `with settings(cd(app_home), shell_env(HOME=app_home))`
BlockKeys(p) ==
    CASE p = "ssh_append"                      -> {"cwd"}
      [] p \in {"keygen", "catkey", "app_cd"}  -> {"sudo_user", "quiet"}
      [] p \in {"app_mkdir", "app_curl"}       -> ScopedKeys
      [] OTHER                                 -> {}

\* C14 as stated: once the context is marked loaded, no step of any task changes
\* any entry of env (the process ending is no step of a task)
C14_Original ==
    [][ (Truthy(env["config_loaded"]) /\ pc \notin {"idle", "end"}) => env' = env ]_vars

\* C14 (amended): once the context is marked loaded, a step of a task changes env in
\* two ways only: defaultserver sets config_key to "default" and nothing else, and
\* entering or leaving a with-block (cd, settings, shell_env) sets or restores cwd,
\* sudo_user, quiet and shell_env and nothing else; outside its with-block each of
\* these four has the value it had before the block, also after an abort.  While
\* the context is not marked loaded the only steps that change env are a load that
\* succeeds and defaultserver's assignment.
C14_OnlyLoaderDefaultserverAndBlocksWrite ==
    /\ [](\A k \in ScopedKeys \ BlockKeys(pc) : env[k] = NoEnv[k])
    /\ [][ /\ (Truthy(env["config_loaded"]) /\ pc \notin {"idle", "end"}) =>
                 \/ env' = env
                 \/ pc = "defaultserver" /\ env' = [env EXCEPT !["config_key"] = "default"]
                 \/ /\ BlockKeys(pc) \cup BlockKeys(pc') # {}
                    /\ \A k \in EnvKeys \ (BlockKeys(pc) \cup BlockKeys(pc')) : env'[k] = env[k]
           /\ (~Truthy(env["config_loaded"]) /\ pc \notin {"idle", "end"} /\ env' # env) =>
                 \/ lastLoad'.kind = "ok" /\ env' = lastLoad'.after
                 \/ pc = "defaultserver" /\ env' = [env EXCEPT !["config_key"] = "default"]
         ]_vars

\* setupdjangoapp is inside both of its with-blocks, in a process that had loaded
\* profile prod and in which defaultserver was run afterwards
C14_Witness ==
    /\ task = "setupdjangoapp" /\ pc = "app_curl"
    /\ loaded.key = "prod" /\ env["config_key"] = "default"
    /\ env["admin_user"] = "adm" /\ env["app_name"] = "shop"
    /\ env["sudo_user"] = "shop" /\ env["quiet"] = PyTrue
    /\ env["cwd"] = Home("shop") /\ env["shell_env"] = "HOME=" \o Home("shop")

(***************************************************************************)
(* C15  where the sudoers line goes                                        *)
(***************************************************************************)
\* C15: after addadminuser completed, every command succeeding, on a host that had
\* no admin home, the line `<admin_user> ALL=(ALL) NOPASSWD:ALL` is in the drop-in
\* file named after the admin user, /etc/sudoers.d/<admin_user>.
C15_SudoersLineInUserFile ==
    (Done("addadminuser") /\ Clean /\ ~AdminHomeWasThere) =>
        HasLine(target, "/etc/sudoers.d/" \o env["admin_user"], SudoersLine(env["admin_user"]))

\* What the code does instead: the line is appended to the file whose name is the
\* unformatted literal, and no file named after the admin user is written.
SudoersLineInLiteralFile ==
    (Done("addadminuser") /\ Clean /\ ~AdminHomeWasThere) =>
        /\ HasLine(target, "/etc/sudoers.d/{username}", SudoersLine(env["admin_user"]))
        /\ ("/etc/sudoers.d/" \o env["admin_user"]) \notin DOMAIN target.files

(***************************************************************************)
(* C16  the package index refresh                                          *)
(***************************************************************************)
\* the positions of the log holding calls of installpackages
RefreshAt == {i \in LogIdx : log[i].cmd = "apt update"}
InstallAt == {i \in LogIdx : log[i].cmd = "apt install"}

\* installpackages has run in the invocation
InstallPackagesRan == RefreshAt \cup InstallAt # {}

\* C16 as stated: one refresh, issued before the first install command, and no
\* install command at all when the refresh failed
C16_Original ==
    InstallPackagesRan =>
        /\ Cardinality(RefreshAt) = 1
        /\ \A i \in RefreshAt, j \in InstallAt : i < j
        /\ \A i \in RefreshAt : ~log[i].ok => InstallAt = {}

\* C16 (amended): in every installpackages run the package index is refreshed
\* exactly once, before the first install command; the refresh is tolerant: after a
\* non-zero exit of it the install commands follow all the same, one per package, and
\* a run that completes has issued the install commands of the whole list; only a
\* lost connection ends the run before that.
C16_RefreshOnceThenInstall ==
    InstallPackagesRan =>
        /\ Cardinality(RefreshAt) = 1
        /\ \A i \in RefreshAt, j \in InstallAt : i < j
        /\ \A i \in RefreshAt : InstallAt = (i + 1)..Len(log)
        /\ Cardinality(InstallAt) <= Len(pkg_list)
        /\ pc = "apt_install" => Cardinality(InstallAt) = idx - 1
        /\ outcome = "done" => Cardinality(InstallAt) = Len(pkg_list)
        /\ outcome = "aborted" => abortKind = "connection"

\* an installpackages run whose refresh exited non-zero
C16_Witness ==
    /\ Done("installpackages")
    /\ log[1].cmd = "apt update" /\ ~log[1].ok
    /\ ~target.aptFresh
    /\ InstallArgs = pkg_list
    /\ "tmux" \in target.installed

(***************************************************************************)
(* C17  order of the firewall commands                                     *)
(***************************************************************************)
\* the commands setupfirewall has issued after its exists check, in order
FirewallCmds ==
    SelectSeq(log, LAMBDA c : c.step = "setupfirewall" /\ c.cmd # "exists")

firewall_order == <<"put", "append", "chmod +x", "run">>

\* C17: with the init script absent, setupfirewall issues upload, script write,
\* chmod +x and invocation in that order, each at most once; the script is invoked
\* only after the upload, the write and the chmod all succeeded in the same run, and
\* a run that completes has issued all four.
C17_FirewallOrder ==
    /\ Len(FirewallCmds) <= Len(firewall_order)
    /\ \A i \in 1..Len(FirewallCmds) :
          /\ FirewallCmds[i].cmd = firewall_order[i]
          /\ \A j \in 1..(i - 1) : FirewallCmds[j].ok
    /\ \A i \in 1..Len(FirewallCmds) :
          FirewallCmds[i].cmd = "run" =>
              i = 4 /\ FirewallCmds[1].ok /\ FirewallCmds[2].ok /\ FirewallCmds[3].ok
    /\ (Done("setupfirewall") /\ ~exists(startTarget, iptables_init_file)) =>
          Len(FirewallCmds) = 4 /\ FirewallCmds[4].ok

\* a setupfirewall run on a host without the init script that got to the invocation
C17_Witness ==
    /\ Done("setupfirewall")
    /\ iptables_init_file \notin DOMAIN startTarget.files
    /\ Len(FirewallCmds) = 4
    /\ target.fwActive /\ ~startTarget.fwActive
    /\ iptables_init_file \in target.exec

(***************************************************************************)
(* C18  no remote call before the configuration is loaded                  *)
(***************************************************************************)
\* env holds every key of `profile` (the loaded flag aside, which line 63 sets
\* after the merge)
Merged(profile) == \A k \in (DOMAIN profile) \ {"config_loaded"} : env[k] = profile[k]

\* conf.json still holds, under the key that was loaded, the profile that was loaded
ConfAsLoaded ==
    /\ conf.state = "ok"
    /\ loaded.key \in DOMAIN conf.doc
    /\ conf.doc[loaded.key] = loaded.profile

\* C18 as stated: whenever the running task has issued a remote call, the loaded
\* flag is true and env holds every key of the selected profile, the one that
\* config_key names in conf.json (looked at only while conf.json is as it was
\* when the process loaded it).
C18_Original ==
    log # <<>> =>
        /\ env["config_loaded"] = PyTrue
        /\ ConfAsLoaded =>
              /\ env["config_key"] \in DOMAIN conf.doc
              /\ Merged(conf.doc[env["config_key"]])

\* C18 (amended): whenever the running task has issued a remote call, an exists
\* check included, the loaded flag is true, the task's loadconfig call went
\* through, and env holds every key of the profile that the process selected and
\* merged when it loaded its configuration; when the load was made by the running
\* task, that is the profile config_key named at that call.
C18_LoadedBeforeRemote ==
    log # <<>> =>
        /\ env["config_loaded"] = PyTrue
        /\ lastLoad.kind \in {"ok", "noop"}
        /\ loaded # NotLoaded
        /\ Merged(loaded.profile)
        /\ lastLoad.kind = "ok" => loaded = Selected(lastLoad.before, lastLoad.conf)
        /\ startEnv["config_loaded"] = PyFalse => lastLoad.kind = "ok" \/ task = "setup"

\* securessh has issued its first command in a process that loaded profile prod and
\* in which defaultserver then set config_key to "default"
C18_Witness ==
    /\ task = "securessh" /\ pc = "sed2" /\ Len(log) = 1
    /\ lastLoad.kind = "noop"
    /\ loaded.key = "prod" /\ env["config_key"] = "default"
    /\ ConfAsLoaded
    /\ env["config_loaded"] = PyTrue /\ env["admin_user"] = "adm" /\ env["app_name"] = "shop"

(***************************************************************************)
(* C19  addadminuser always runs addsshkey                                 *)
(***************************************************************************)
\* addadminuser returned normally: as a task of its own, or as the first task of a
\* setup that has gone on to the next one
AddAdminUserReturned ==
    \/ Done("addadminuser")
    \/ /\ task = "setup"
       /\ \E i \in LogIdx : log[i].step = "addsshkey"
       /\ \E i \in LogIdx : StepRank(log[i].step) >= 2

\* C19: addadminuser runs addsshkey whether or not the admin home existed, so after
\* addadminuser returns normally the .ssh directory of the admin user exists on the
\* host; the key is appended to authorized_keys only in a run whose exists check
\* found no .ssh directory.
C19_AlwaysRunsAddSshKey ==
    LET u == env["admin_user"]
        checks == Calls("addsshkey", "exists")
    IN  /\ AddAdminUserReturned =>
              /\ Len(checks) = 1
              /\ checks[1].arg = SshDir(u)
              /\ SshDir(u) \in target.dirs
        /\ Len(Calls("addsshkey", "append")) > 0 =>
              /\ Len(checks) = 1 /\ ~checks[1].ok
              /\ SshDir(u) \notin startTarget.dirs
              /\ Calls("addsshkey", "append")[1].arg = AuthorizedKeys(u)
        /\ (Len(checks) = 1 /\ checks[1].ok) =>
              /\ target.files = startTarget.files \/ task = "setup"
              /\ Len(Calls("addsshkey", "mkdir")) = 0

\* addadminuser on a host that had the admin home but no .ssh directory in it: no
\* account was created, the key was installed
C19_Witness ==
    /\ Done("addadminuser")
    /\ AdminHomeWasThere
    /\ Len(Calls("addadminuser", "adduser")) = 0
    /\ SshDir(env["admin_user"]) \notin startTarget.dirs
    /\ SshDir(env["admin_user"]) \in target.dirs
    /\ HasLine(target, AuthorizedKeys(env["admin_user"]), PubKey(env["admin_user"]))

====
